---------------------------- MODULE Spec2Model ----------------------------
(***************************************************************************)
(* A model of the task synchronisation and mutation-retry layer of the     *)
(* Smart Task Planner client (src/unnamed/part_000): withRetry, the        *)
(* Firestore snapshot listener with its ordering, the CRUD callbacks and   *)
(* the AI suggestion workflow.                                             *)
(*                                                                         *)
(* Strings that the code inspects (trim) are sequences of characters.      *)
(* A Firestore createdAt is <<>> while unresolved (null) and <<ms>> once   *)
(* the server timestamp is known.                                          *)
(***************************************************************************)
EXTENDS Integers, Sequences, FiniteSets, TLC

VARIABLES
  frame,      \* the activation of one withRetry call (SpecRetry)
  userId,     \* useState userId: the bound principal, or None
  sub,        \* the principal the last run of the listener effect subscribed for, or None
  listeners,  \* the principals whose collection has an onSnapshot listener attached
  store,      \* remote collections: principal -> documents in query order
  pendingSnap,\* an attached listener has a snapshot it has not delivered yet
  tasks,      \* useState tasks
  aiPrompt,   \* useState aiPrompt
  isGenerating,    \* useState isGenerating
  generationError, \* useState generationError
  aiSuggestions,   \* useState aiSuggestions
  genCb,      \* what the memoized generateTasksFromPrompt closed over
  genCalls,   \* activations of generateTasksFromPrompt awaiting withRetry
  calls,      \* activations of addTask / toggleTaskCompletion / deleteTask
  newTaskText,     \* useState newTaskText
  errorMessage,    \* useState errorMessage
  event       \* the handler or continuation that ran last, with its arguments

feedVars == <<userId, sub, listeners, store, pendingSnap, tasks>>

genVars == <<aiPrompt, isGenerating, generationError, aiSuggestions, genCb, genCalls>>

crudVars == <<calls, newTaskText, errorMessage>>

vars == <<frame, feedVars, genVars, crudVars, event>>

None == "none"

\* The last step taken: which code ran, on which text / document id.
Ev(op, text, id) == [op |-> op, text |-> text, id |-> id]

Pow2(n) == 2 ^ n

InsertAt(seq, pos, x) ==
  SubSeq(seq, 1, pos - 1) \o <<x>> \o SubSeq(seq, pos, Len(seq))

RemoveAt(seq, pos) ==
  SubSeq(seq, 1, pos - 1) \o SubSeq(seq, pos + 1, Len(seq))

----------------------------------------------------------------------------
(* withRetry (part_000:17-27).  A frame is the state of one activation:    *)
(*   retries  the second argument                                          *)
(*   i        the loop variable                                            *)
(*   pc       "idle" before the call, "awaitFn" while fn() is pending,     *)
(*            "sleeping" while the backoff timer runs, "returned", "thrown"*)
(*   attempts number of times fn was invoked                               *)
(*   inflight number of fn() promises not yet settled                      *)
(*   errors   the errors the attempts threw, in order                      *)
(*   waits    the delays handed to setTimeout, in order                    *)
(*   result   the value returned or the error thrown                       *)

\* Upper end of the retries argument explored by SpecRetry.
MaxRetries == 4

DefaultRetries == 3

Errors == {"e1", "e2"}
Values == {"v1", "v2"}
Undefined == "undefined"

IdleFrame ==
  [retries |-> 0, i |-> 0, pc |-> "idle", attempts |-> 0, inflight |-> 0,
   errors |-> <<>>, waits |-> <<>>, result |-> Undefined]

\* A linear backoff in place of the exponential one.
BackoffDelay_Linear(i) == (i + 1) * 1000

\* line 23: const delay = Math.pow(2, i) * 1000
BackoffDelay(i) == Pow2(i) * 1000

\* The last-attempt test off by one.
IsLastAttempt_OffByOne(f) == f.i = f.retries

\* line 22: if (i === retries - 1) throw error
IsLastAttempt(f) == f.i = f.retries - 1

\* lines 17-20: enter the loop and invoke fn(), or fall out of it when the
\* loop condition i < retries is false from the start.
RetryCall(retries) ==
  IF 0 < retries
    THEN [IdleFrame EXCEPT !.retries = retries, !.pc = "awaitFn",
                           !.attempts = 1, !.inflight = 1]
    ELSE [IdleFrame EXCEPT !.retries = retries, !.pc = "returned"]

\* line 20: return await fn()  -- fn resolved with v
RetryResolve(f, v) ==
  [f EXCEPT !.pc = "returned", !.inflight = f.inflight - 1, !.result = v]

\* lines 21-24: fn rejected with e
RetryReject(f, e) ==
  IF IsLastAttempt(f)
    THEN [f EXCEPT !.pc = "thrown", !.inflight = f.inflight - 1,
                   !.errors = Append(f.errors, e), !.result = e]
    ELSE [f EXCEPT !.pc = "sleeping", !.inflight = f.inflight - 1,
                   !.errors = Append(f.errors, e),
                   !.waits = Append(f.waits, BackoffDelay(f.i))]

\* lines 24, 18, 20: the timer fired; i++, the loop condition, the next fn()
RetryWake(f) ==
  IF f.i + 1 < f.retries
    THEN [f EXCEPT !.i = f.i + 1, !.pc = "awaitFn",
                   !.attempts = f.attempts + 1, !.inflight = f.inflight + 1]
    ELSE [f EXCEPT !.i = f.i + 1, !.pc = "returned"]

RetryDone(f) == f.pc \in {"returned", "thrown"}

----------------------------------------------------------------------------
(* The onSnapshot callback (part_000:102-117) and its ordering.            *)

Principals == {"u1", "u2"}

TaskIds == <<"a", "b", "c">>

SnapshotIds == {TaskIds[k] : k \in 1..Len(TaskIds)}

\* Server timestamps, in milliseconds; the server clock is positive.
Times == {10, 20, 30}

SomeText == <<"x">>

Doc(id, text, completed, createdAt) ==
  [id |-> id, text |-> text, completed |-> completed, createdAt |-> createdAt]

\* lines 112-113: a.createdAt?.toMillis() || 0
MillisOrZero(d) ==
  IF d.createdAt = <<>> THEN 0
  ELSE IF d.createdAt[1] = 0 THEN 0 ELSE d.createdAt[1]

\* The comparator with the completion test inverted.
CompareTasks_CompletedFirst(a, b) ==
  IF a.completed # b.completed
    THEN (IF a.completed THEN -1 ELSE 1)
    ELSE MillisOrZero(b) - MillisOrZero(a)

\* The comparator with the timestamps subtracted the other way round.
CompareTasks_OldestFirst(a, b) ==
  IF a.completed # b.completed
    THEN (IF a.completed THEN 1 ELSE -1)
    ELSE MillisOrZero(a) - MillisOrZero(b)

\* The comparator answering with a sign only, never 0 for equal timestamps.
CompareTasks_NeverEqual(a, b) ==
  IF a.completed # b.completed
    THEN (IF a.completed THEN 1 ELSE -1)
    ELSE (IF MillisOrZero(b) >= MillisOrZero(a) THEN 1 ELSE -1)

\* lines 108-115: the comparator handed to fetchedTasks.sort
CompareTasks(a, b) ==
  IF a.completed # b.completed
    THEN (IF a.completed THEN 1 ELSE -1)
    ELSE MillisOrZero(b) - MillisOrZero(a)

\* Array.prototype.sort is stable: an element is placed behind every element
\* of the sorted prefix that does not compare greater than it.
RECURSIVE InsertSorted(_, _)
InsertSorted(sorted, x) ==
  IF sorted = <<>> THEN <<x>>
  ELSE IF CompareTasks(sorted[Len(sorted)], x) > 0
    THEN Append(InsertSorted(SubSeq(sorted, 1, Len(sorted) - 1), x),
                sorted[Len(sorted)])
    ELSE Append(sorted, x)

RECURSIVE SortFrom(_, _)
SortFrom(sorted, rest) ==
  IF rest = <<>> THEN sorted
  ELSE SortFrom(InsertSorted(sorted, Head(rest)), Tail(rest))

\* line 108: fetchedTasks.sort(comparator)
SortTasks(docs) == SortFrom(<<>>, docs)

\* lines 103-116: map the snapshot's documents, sort, setTasks
OrderingPolicy(snapshotDocs) == SortTasks(snapshotDocs)

\* lines 102-117: the listener's success callback, run for the collection
\* the listener is attached to.
OnSnapshot ==
  /\ pendingSnap
  /\ \E s \in listeners : tasks' = OrderingPolicy(store[s])
  /\ pendingSnap' = FALSE
  /\ event' = Ev("onSnapshot", <<>>, None)
  /\ UNCHANGED <<frame, userId, sub, listeners, store, genVars, crudVars>>

----------------------------------------------------------------------------
(* Text.  A string is a sequence of characters; trim() strips white space  *)
(* from both ends.                                                         *)

WhiteSpace == {" ", "\t"}

RECURSIVE TrimStart(_)
TrimStart(s) ==
  IF s # <<>> /\ Head(s) \in WhiteSpace THEN TrimStart(Tail(s)) ELSE s

RECURSIVE TrimEnd(_)
TrimEnd(s) ==
  IF s # <<>> /\ s[Len(s)] \in WhiteSpace
    THEN TrimEnd(SubSeq(s, 1, Len(s) - 1)) ELSE s

\* String.prototype.trim
Trim(s) == TrimEnd(TrimStart(s))

BuyMilk == <<"B", "u", "y", " ", "m", "i", "l", "k">>
BookVenue == <<"B", "o", "o", "k", " ", "v", "e", "n", "u", "e">>

----------------------------------------------------------------------------
(* The AI suggestion workflow (part_000:169-203, 258-307, 396-401).        *)

\* Longest tasks array a response carries here.
MaxSuggestions == 2

\* Most generateTasksFromPrompt activations pending at once.
MaxGenCalls == 2

SuggestionTexts == {BuyMilk, BookVenue}

Prompts == {<<>>, <<" ">>, <<"g">>, <<"h">>}

\* response.data of a 2xx answer: with a tasks array or without one
ResponseLists == UNION {[1..n -> SuggestionTexts] : n \in 0..MaxSuggestions}

ResponseBodies ==
  {[hasTasks |-> TRUE, tasks |-> l] : l \in ResponseLists}
    \cup {[hasTasks |-> FALSE, tasks |-> <<>>]}

\* What axios.post rejects with: a non-2xx answer carrying data.error, or a
\* network failure without a response.
GenErrors == {"serverError", "networkError"}

NoError == "null"
FormatErrorMsg == "AI returned an unexpected format."
ConnectErrorMsg == "Failed to connect to the AI service. Check your backend and API key."
ServerErrorMsg == "error from the server"

\* line 188: error.response?.data?.error || 'Failed to connect ...'
GenErrorMessage(e) ==
  IF e = "serverError" THEN ServerErrorMsg ELSE ConnectErrorMsg

\* useCallback(..., [aiPrompt]) (line 192): the callback is rebuilt, closing
\* over the values of the render, only when aiPrompt differs from the
\* aiPrompt it was built with.
MemoGenerate(cb, prompt, generating) ==
  IF prompt # cb.aiPrompt
    THEN [aiPrompt |-> prompt, isGenerating |-> generating]
    ELSE cb

InitGen ==
  /\ aiPrompt = <<>>
  /\ isGenerating = FALSE
  /\ generationError = NoError
  /\ aiSuggestions = <<>>
  /\ genCb = [aiPrompt |-> <<>>, isGenerating |-> FALSE]
  /\ genCalls = <<>>

\* line 261: onChange={(e) => setAiPrompt(e.target.value)}
SetAiPrompt(p) ==
  /\ aiPrompt' = p
  /\ genCb' = MemoGenerate(genCb, p, isGenerating)
  /\ event' = Ev("setAiPrompt", p, None)
  /\ UNCHANGED <<isGenerating, generationError, aiSuggestions, genCalls>>
  /\ UNCHANGED <<frame, feedVars, crudVars>>

\* line 170: if (!aiPrompt.trim() || isGenerating) return  -- on the values
\* the callback closed over
GenerateGuard(cb) == Trim(cb.aiPrompt) # <<>> /\ ~cb.isGenerating

\* lines 169-178: a call of the current generateTasksFromPrompt, up to the
\* first await: the three setters and the first axios.post
GenerateTasksFromPrompt ==
  /\ Len(genCalls) < MaxGenCalls
  /\ IF GenerateGuard(genCb)
       THEN /\ isGenerating' = TRUE
            /\ generationError' = NoError
            /\ aiSuggestions' = <<>>
            /\ genCalls' = Append(genCalls,
                 [frame |-> RetryCall(DefaultRetries), prompt |-> genCb.aiPrompt])
       ELSE UNCHANGED <<isGenerating, generationError, aiSuggestions, genCalls>>
  /\ event' = Ev("generate", genCb.aiPrompt, None)
  /\ UNCHANGED <<aiPrompt, genCb>>
  /\ UNCHANGED <<frame, feedVars, crudVars>>

\* lines 176-185, 189-191: axios.post of activation k resolved with a 2xx
\* answer; withRetry returns it, the shape test, finally
GenerationResolves(k, body) ==
  /\ genCalls[k].frame.pc = "awaitFn"
  /\ LET response == RetryResolve(genCalls[k].frame, body).result IN
       IF response.hasTasks
         THEN /\ aiSuggestions' = response.tasks
              /\ UNCHANGED generationError
         ELSE /\ generationError' = FormatErrorMsg
              /\ UNCHANGED aiSuggestions
  /\ isGenerating' = FALSE
  /\ genCalls' = RemoveAt(genCalls, k)
  /\ event' = Ev("generationResolved", body.tasks,
                 IF body.hasTasks THEN "tasks" ELSE "noTasks")
  /\ UNCHANGED <<aiPrompt, genCb>>
  /\ UNCHANGED <<frame, feedVars, crudVars>>

\* lines 21-24, 186-191: axios.post of activation k rejected; withRetry
\* either starts the backoff timer or rethrows into the catch block
GenerationRejects(k, e) ==
  /\ genCalls[k].frame.pc = "awaitFn"
  /\ LET f == RetryReject(genCalls[k].frame, e) IN
       IF f.pc = "thrown"
         THEN /\ generationError' = GenErrorMessage(f.result)
              /\ isGenerating' = FALSE
              /\ genCalls' = RemoveAt(genCalls, k)
         ELSE /\ genCalls' = [genCalls EXCEPT ![k].frame = f]
              /\ UNCHANGED <<generationError, isGenerating>>
  /\ event' = Ev("generationRejected", <<>>, e)
  /\ UNCHANGED <<aiPrompt, aiSuggestions, genCb>>
  /\ UNCHANGED <<frame, feedVars, crudVars>>

\* line 24: the backoff timer of activation k fired; the next axios.post
GenerationTimerFires(k) ==
  /\ genCalls[k].frame.pc = "sleeping"
  /\ genCalls' = [genCalls EXCEPT ![k].frame = RetryWake(genCalls[k].frame)]
  /\ event' = Ev("generationTimer", <<>>, None)
  /\ UNCHANGED <<aiPrompt, isGenerating, generationError, aiSuggestions, genCb>>
  /\ UNCHANGED <<frame, feedVars, crudVars>>

\* lines 199-203
DismissAiSuggestions ==
  /\ aiSuggestions' = <<>>
  /\ aiPrompt' = <<>>
  /\ genCb' = MemoGenerate(genCb, <<>>, isGenerating)
  /\ event' = Ev("dismissAiSuggestions", <<>>, None)
  /\ UNCHANGED <<isGenerating, generationError, genCalls>>
  /\ UNCHANGED <<frame, feedVars, crudVars>>

\* line 303: onClick={() => setAiSuggestions([])}
ClearAllSuggestions ==
  /\ aiSuggestions' = <<>>
  /\ event' = Ev("clearAll", <<>>, None)
  /\ UNCHANGED <<aiPrompt, isGenerating, generationError, genCb, genCalls>>
  /\ UNCHANGED <<frame, feedVars, crudVars>>

\* lines 396-401: the "Generate Tasks with AI" button
OpenAiModal ==
  /\ aiPrompt' = <<>>
  /\ aiSuggestions' = <<>>
  /\ generationError' = NoError
  /\ genCb' = MemoGenerate(genCb, <<>>, isGenerating)
  /\ event' = Ev("openAiModal", <<>>, None)
  /\ UNCHANGED <<isGenerating, genCalls>>
  /\ UNCHANGED <<frame, feedVars, crudVars>>

\* Number of axios.post requests awaiting their answer.
RECURSIVE PendingPosts(_)
PendingPosts(cs) ==
  IF cs = <<>> THEN 0
  ELSE (IF Head(cs).frame.pc = "awaitFn" THEN 1 ELSE 0) + PendingPosts(Tail(cs))

NoMessage == ""
AddFailedMsg == "Could not add task. Please try again."
ToggleFailedMsg == "Could not update task status."
DeleteFailedMsg == "Could not delete task."
LogoutFailedMsg == "Failed to log out."

----------------------------------------------------------------------------
(* Session binding (part_000:63-85, 205-217) and the listener effect       *)
(* (93-125).  The effect runs after the render that follows a change of    *)
(* userId: first the cleanup of its previous run, then its body.           *)

\* lines 63-76: onAuthStateChanged / signIn delivers a user; setUserId
SignInResolves(u) ==
  /\ userId = None
  /\ userId' = u
  /\ event' = Ev("signIn", <<>>, u)
  /\ UNCHANGED <<sub, listeners, store, pendingSnap, tasks>>
  /\ UNCHANGED <<frame, genVars, crudVars>>

\* lines 205-211: signOut resolved; setUserId(null), setTasks([])
HandleLogout ==
  /\ userId # None
  /\ userId' = None
  /\ tasks' = <<>>
  /\ event' = Ev("logout", <<>>, None)
  /\ UNCHANGED <<sub, listeners, store, pendingSnap>>
  /\ UNCHANGED <<frame, genVars, crudVars>>

\* The cleanup that never detaches the listener.
Unsubscribe_Never(ls, s) == ls

\* line 124: return () => unsubscribe(), the cleanup of the run that
\* subscribed for s (nothing to detach when that run returned at its guard)
Unsubscribe(ls, s) == ls \ {s}

\* lines 94-102: if (!db || !isAuthReady || !userId) return; onSnapshot(q, ...)
Subscribe(ls, uid) == IF uid = None THEN ls ELSE ls \cup {uid}

\* lines 93-125: the effect runs because userId differs from the one of its
\* last run: cleanup, guard, onSnapshot.  A new listener always delivers a
\* first snapshot.
ListenerEffect ==
  /\ sub # userId
  /\ listeners' = Subscribe(Unsubscribe(listeners, sub), userId)
  /\ sub' = userId
  /\ pendingSnap' = (userId # None)
  /\ event' = Ev("listenerEffect", <<>>, userId)
  /\ UNCHANGED <<userId, store, tasks>>
  /\ UNCHANGED <<frame, genVars, crudVars>>

\* lines 212-215: signOut rejected; setErrorMessage
HandleLogoutFails ==
  /\ userId # None
  /\ errorMessage' = LogoutFailedMsg
  /\ event' = Ev("logoutFailed", <<>>, None)
  /\ UNCHANGED <<calls, newTaskText>>
  /\ UNCHANGED <<frame, feedVars, genVars>>

----------------------------------------------------------------------------
(* The CRUD callbacks (part_000:128-166).  An activation is               *)
(*   kind       "add", "toggle" or "delete"                                *)
(*   uid        the userId the callback closed over (the path it writes)   *)
(*   text       the trimmed text of an add                                 *)
(*   id         the document of a toggle or delete                         *)
(*   completed  the value a toggle writes                                  *)
(*   frame      its withRetry activation                                   *)

\* Most CRUD activations pending at once.
MaxCalls == 1

InputTexts == {<<" ", "\t">>, <<" ", "x", " ">>}

WriteError == "writeError"

InitCrud ==
  /\ calls = <<>>
  /\ newTaskText = <<>>
  /\ errorMessage = NoMessage

Activation(kind, uid, text, id, completed) ==
  [kind |-> kind, uid |-> uid, text |-> text, id |-> id,
   completed |-> completed, frame |-> RetryCall(DefaultRetries)]

\* The guard of addTask comparing the text without trimming it.
AddTaskGuard_NoTrim(uid, text) == uid # None /\ text # <<>>

\* line 129: if (!db || !userId || text.trim() === '') return
AddTaskGuard(uid, text) == uid # None /\ Trim(text) # <<>>

\* lines 128-136: addTask(text) up to the first await: the activations
\* pending after the call
AddTaskCalls(cs, uid, text) ==
  IF AddTaskGuard(uid, text)
    THEN Append(cs, Activation("add", uid, Trim(text), None, FALSE))
    ELSE cs

\* line 145 / line 158: if (!db || !userId) return
WriteGuard(uid) == uid # None

\* lines 144-150: toggleTaskCompletion(taskId, completed) up to the await
ToggleCalls(cs, uid, taskId, completed) ==
  IF WriteGuard(uid)
    THEN Append(cs, Activation("toggle", uid, <<>>, taskId, ~completed))
    ELSE cs

\* lines 157-161: deleteTask(taskId) up to the await
DeleteCalls(cs, uid, taskId) ==
  IF WriteGuard(uid)
    THEN Append(cs, Activation("delete", uid, <<>>, taskId, FALSE))
    ELSE cs

\* line 380: onChange={(e) => setNewTaskText(e.target.value)}
SetNewTaskText(t) ==
  /\ newTaskText' = t
  /\ event' = Ev("setNewTaskText", t, None)
  /\ UNCHANGED <<calls, errorMessage>>
  /\ UNCHANGED <<frame, feedVars, genVars>>

\* lines 371-374: the form's onSubmit: addTask(newTaskText)
SubmitNewTask ==
  /\ Len(calls) < MaxCalls
  /\ calls' = AddTaskCalls(calls, userId, newTaskText)
  /\ event' = Ev("addTask", newTaskText, None)
  /\ UNCHANGED <<newTaskText, errorMessage>>
  /\ UNCHANGED <<frame, feedVars, genVars>>

\* lines 144-155, called with (taskId, completed)
ToggleTaskCompletion(taskId, completed) ==
  /\ Len(calls) < MaxCalls
  /\ calls' = ToggleCalls(calls, userId, taskId, completed)
  /\ event' = Ev("toggle", <<>>, taskId)
  /\ UNCHANGED <<newTaskText, errorMessage>>
  /\ UNCHANGED <<frame, feedVars, genVars>>

\* lines 157-166, called with (taskId)
DeleteTask(taskId) ==
  /\ Len(calls) < MaxCalls
  /\ calls' = DeleteCalls(calls, userId, taskId)
  /\ event' = Ev("delete", <<>>, taskId)
  /\ UNCHANGED <<newTaskText, errorMessage>>
  /\ UNCHANGED <<frame, feedVars, genVars>>

\* line 227: onClick={() => toggleTaskCompletion(task.id, task.completed)}
\* on the k-th rendered task
TaskItemToggle(k) == ToggleTaskCompletion(tasks[k].id, tasks[k].completed)

\* line 238: onClick={() => deleteTask(task.id)} on the k-th rendered task
TaskItemDelete(k) == DeleteTask(tasks[k].id)

\* The buffer left as it is.
FilterOut_Keep(buffer, taskText) == buffer

\* line 196: prev.filter(t => t !== taskText)
FilterOut(buffer, taskText) == SelectSeq(buffer, LAMBDA t : t # taskText)

\* lines 194-197: addAiSuggestion(taskText)
AddAiSuggestion(taskText) ==
  /\ Len(calls) < MaxCalls
  /\ calls' = AddTaskCalls(calls, userId, taskText)
  /\ aiSuggestions' = FilterOut(aiSuggestions, taskText)
  /\ event' = Ev("addAiSuggestion", taskText, None)
  /\ UNCHANGED <<newTaskText, errorMessage>>
  /\ UNCHANGED <<aiPrompt, isGenerating, generationError, genCb, genCalls>>
  /\ UNCHANGED <<frame, feedVars>>

MaxOf(S) == CHOOSE x \in S : \A y \in S : y <= x
MinOf(S) == CHOOSE x \in S : \A y \in S : x <= y

\* Positions of the document with this id in a collection.
PositionsOf(docs, id) == {k \in 1..Len(docs) : docs[k].id = id}

IdsIn(docs) == {docs[k].id : k \in 1..Len(docs)}

\* The ids addDoc draws from in SpecStore and SpecPromote: these follow one
\* document at a time through creation, update, deletion and re-creation.
StoreIds == {"a"}

\* addDoc never returns an id that is in use: ids that no collection, no
\* rendered task and no pending activation refers to.
NewDocIds ==
  StoreIds \ (UNION {IdsIn(store[u]) : u \in Principals}
                \cup IdsIn(tasks) \cup IdsIn(calls))

\* line 135: serverTimestamp(): the server clock never runs backwards
ServerTime ==
  LET used == UNION {{store[u][k].createdAt[1] : k \in 1..Len(store[u])} : u \in Principals}
      later == {t \in Times : \A x \in used : t > x}
  IN IF later # {} THEN MinOf(later) ELSE MaxOf(Times)

\* The collection of c.uid once the server has applied the write of c; an
\* add lands at position pos with a new id.
ApplyWrite(docs, c, pos, newId) ==
  CASE c.kind = "add" ->
         InsertAt(docs, pos, Doc(newId, c.text, FALSE, <<ServerTime>>))
    [] c.kind = "toggle" ->
         [k \in 1..Len(docs) |->
            IF docs[k].id = c.id THEN [docs[k] EXCEPT !.completed = c.completed]
            ELSE docs[k]]
    [] c.kind = "delete" ->
         SelectSeq(docs, LAMBDA d : d.id # c.id)

\* updateDoc rejects when the document does not exist.
CanApply(docs, c) == c.kind = "toggle" => PositionsOf(docs, c.id) # {}

\* The catch block that reports nothing.
FailureMessage_Silent(kind) == NoMessage

\* line 140 / 153 / 164: the message of the catch block
FailureMessage(kind) ==
  CASE kind = "add" -> AddFailedMsg
    [] kind = "toggle" -> ToggleFailedMsg
    [] kind = "delete" -> DeleteFailedMsg

\* The collection read at the time of the write: that of the principal
\* bound then, when there is one.
Target_Current(c) == IF userId = None THEN c.uid ELSE userId

\* lines 131 / 147 / 160: the path is built from the userId of the call,
\* before withRetry, and every attempt uses it
Target(c) == c.uid

\* The task list with a deleted document spliced out when its write returns.
TasksAfterWrite_Splice(ts, c) ==
  IF c.kind = "delete" THEN SelectSeq(ts, LAMBDA d : d.id # c.id) ELSE ts

\* lines 136-137, 150, 161: when withRetry returns, the callbacks call no
\* setTasks; the task list is left to the listener
TasksAfterWrite(ts, c) == ts

\* The pending addDoc / updateDoc / deleteDoc of activation k resolved:
\* the server applied it; withRetry returns; line 137 for an add.
WriteResolves(k, pos, newId) ==
  /\ calls[k].frame.pc = "awaitFn"
  /\ CanApply(store[Target(calls[k])], calls[k])
  /\ LET c == calls[k]
         f == RetryResolve(c.frame, "ok")
         docs == ApplyWrite(store[Target(c)], c, pos, newId)
     IN /\ f.pc = "returned"
        /\ store' = [store EXCEPT ![Target(c)] = docs]
        /\ pendingSnap' = (pendingSnap \/ (Target(c) \in listeners /\ docs # store[Target(c)]))
        /\ newTaskText' = IF c.kind = "add" THEN <<>> ELSE newTaskText
        /\ event' = Ev(c.kind \o "Applied", c.text, IF c.kind = "add" THEN newId ELSE c.id)
  /\ tasks' = TasksAfterWrite(tasks, calls[k])
  /\ calls' = RemoveAt(calls, k)
  /\ UNCHANGED <<userId, sub, listeners, errorMessage>>
  /\ UNCHANGED <<frame, genVars>>

\* The pending write of activation k rejected: withRetry starts the backoff
\* timer, or rethrows into the callback's catch block.
WriteRejects(k) ==
  /\ calls[k].frame.pc = "awaitFn"
  /\ LET f == RetryReject(calls[k].frame, WriteError) IN
       IF f.pc = "thrown"
         THEN /\ errorMessage' = FailureMessage(calls[k].kind)
              /\ calls' = RemoveAt(calls, k)
         ELSE /\ calls' = [calls EXCEPT ![k].frame = f]
              /\ UNCHANGED errorMessage
  /\ event' = Ev(calls[k].kind \o "Rejected", calls[k].text, calls[k].id)
  /\ UNCHANGED newTaskText
  /\ UNCHANGED <<frame, feedVars, genVars>>

\* line 24: the backoff timer of activation k fired; the next write
WriteTimerFires(k) ==
  /\ calls[k].frame.pc = "sleeping"
  /\ calls' = [calls EXCEPT ![k].frame = RetryWake(calls[k].frame)]
  /\ event' = Ev("writeTimer", calls[k].text, calls[k].id)
  /\ UNCHANGED <<newTaskText, errorMessage>>
  /\ UNCHANGED <<frame, feedVars, genVars>>

----------------------------------------------------------------------------
(* SpecRetry: one withRetry call with any retries argument and an operation *)
(* whose every attempt may resolve or reject.                               *)

InitFeed ==
  /\ userId = None
  /\ sub = None
  /\ listeners = {}
  /\ store = [u \in Principals |-> <<>>]
  /\ pendingSnap = FALSE
  /\ tasks = <<>>

InitApp == InitFeed /\ InitGen /\ InitCrud

appVars == <<feedVars, genVars, crudVars>>

InitRetry ==
  /\ frame = IdleFrame
  /\ event = Ev("init", <<>>, None)
  /\ InitApp

WithRetryCall(retries) ==
  /\ frame.pc = "idle"
  /\ frame' = RetryCall(retries)
  /\ event' = Ev("withRetry", <<>>, None)
  /\ UNCHANGED appVars

FnResolves(v) ==
  /\ frame.pc = "awaitFn"
  /\ frame' = RetryResolve(frame, v)
  /\ event' = Ev("fnResolved", v, None)
  /\ UNCHANGED appVars

FnRejects(e) ==
  /\ frame.pc = "awaitFn"
  /\ frame' = RetryReject(frame, e)
  /\ event' = Ev("fnRejected", e, None)
  /\ UNCHANGED appVars

TimerFires ==
  /\ frame.pc = "sleeping"
  /\ frame' = RetryWake(frame)
  /\ event' = Ev("timer", <<>>, None)
  /\ UNCHANGED appVars

NextRetry ==
  \/ \E r \in 0..MaxRetries : WithRetryCall(r)
  \/ \E v \in Values : FnResolves(v)
  \/ \E e \in Errors : FnRejects(e)
  \/ TimerFires

SpecRetry == InitRetry /\ [][NextRetry]_vars

\* The delays 2^0*1000, 2^1*1000, ... of the first n backoff waits.
BackoffSchedule(n) == [k \in 1..n |-> Pow2(k - 1) * 1000]

\* C1: with retries >= 1, a call that returned made exactly k attempts, the
\* first k-1 of which failed, and returns the value the k-th attempt resolved
\* with (k <= retries); a call that threw made exactly retries attempts, all
\* of which failed, and throws the error of the last one.
C1_RetryOutcome ==
  frame.retries >= 1 =>
    /\ frame.pc = "returned" =>
         /\ frame.attempts <= frame.retries
         /\ Len(frame.errors) = frame.attempts - 1
         /\ event.op = "fnResolved"
         /\ frame.result = event.text
    /\ frame.pc = "thrown" =>
         /\ frame.attempts = frame.retries
         /\ Len(frame.errors) = frame.retries
         /\ frame.result = frame.errors[frame.retries]
    /\ frame.pc \in {"awaitFn", "sleeping"} => frame.attempts <= frame.retries

\* An always-failing operation under retries = 3 whose last error differs
\* from the earlier ones.
C1_Witness ==
  /\ frame.retries = 3
  /\ frame.pc = "thrown"
  /\ frame.attempts = 3
  /\ frame.errors = <<"e1", "e1", "e2">>
  /\ frame.result = "e2"

\* C2: the attempts of one call are sequential: at most one fn() is pending;
\* attempt i+1 is pending only after i failures and i waits, the k-th wait
\* being 2^(k-1)*1000 ms; no wait follows a success or the last failure.
C2_SequentialBackoff ==
  /\ frame.inflight <= 1
  /\ frame.waits = BackoffSchedule(Len(frame.waits))
  /\ frame.pc = "awaitFn" =>
       /\ frame.inflight = 1
       /\ frame.attempts = frame.i + 1
       /\ Len(frame.errors) = frame.i
       /\ Len(frame.waits) = frame.i
  /\ frame.pc = "sleeping" =>
       /\ frame.inflight = 0
       /\ Len(frame.errors) = frame.i + 1
       /\ Len(frame.waits) = frame.i + 1
       /\ frame.i + 1 < frame.retries
  /\ RetryDone(frame) =>
       /\ frame.inflight = 0
       /\ frame.attempts >= 1 => Len(frame.waits) = frame.attempts - 1

\* The third attempt is pending after waits of 1000 and 2000 ms.
C2_Witness ==
  /\ frame.pc = "awaitFn"
  /\ frame.attempts = 3
  /\ frame.waits = <<1000, 2000>>

----------------------------------------------------------------------------
(* SpecOrder: the listener of principal u1 over a collection that starts   *)
(* with any content and that other writes keep changing, one document at a *)
(* time; the listener is notified of every change.                         *)

CreatedAtValues == {<<>>} \cup {<<t>> : t \in Times}

AllDocs ==
  {Doc(id, SomeText, c, t) : id \in SnapshotIds, c \in BOOLEAN, t \in CreatedAtValues}

DistinctIds(docs) ==
  \A i, j \in 1..Len(docs) : i # j => docs[i].id # docs[j].id

\* Every snapshot a query over the collection can deliver.
AllSnapshots ==
  UNION {{s \in [1..n -> AllDocs] : DistinctIds(s)} : n \in 0..Len(TaskIds)}

InitOrder ==
  /\ frame = IdleFrame
  /\ event = Ev("init", <<>>, None)
  /\ userId = "u1"
  /\ sub = "u1"
  /\ listeners = {"u1"}
  /\ store \in {[u \in Principals |-> IF u = "u1" THEN s ELSE <<>>] : s \in AllSnapshots}
  /\ pendingSnap = TRUE
  /\ tasks = <<>>
  /\ InitGen
  /\ InitCrud

\* updateDoc({completed}) applied by the server to document k
RemoteUpdate(k) ==
  /\ ~pendingSnap
  /\ store' = [store EXCEPT ![sub][k].completed = ~store[sub][k].completed]
  /\ pendingSnap' = TRUE
  /\ event' = Ev("remoteUpdate", <<>>, store[sub][k].id)
  /\ UNCHANGED <<frame, userId, sub, listeners, tasks, genVars, crudVars>>

\* deleteDoc applied by the server to document k
RemoteDelete(k) ==
  /\ ~pendingSnap
  /\ store' = [store EXCEPT ![sub] = RemoveAt(store[sub], k)]
  /\ pendingSnap' = TRUE
  /\ event' = Ev("remoteDelete", <<>>, store[sub][k].id)
  /\ UNCHANGED <<frame, userId, sub, listeners, tasks, genVars, crudVars>>

\* addDoc: a new document, anywhere in the query order (its id is random),
\* its createdAt still unresolved or already set by the server
RemoteAdd(pos, d) ==
  /\ ~pendingSnap
  /\ \A k \in 1..Len(store[sub]) : store[sub][k].id # d.id
  /\ store' = [store EXCEPT ![sub] = InsertAt(store[sub], pos, d)]
  /\ pendingSnap' = TRUE
  /\ event' = Ev("remoteAdd", <<>>, d.id)
  /\ UNCHANGED <<frame, userId, sub, listeners, tasks, genVars, crudVars>>

\* serverTimestamp() of document k resolves to t
TimestampResolves(k, t) ==
  /\ ~pendingSnap
  /\ store[sub][k].createdAt = <<>>
  /\ store' = [store EXCEPT ![sub][k].createdAt = <<t>>]
  /\ pendingSnap' = TRUE
  /\ event' = Ev("timestampResolved", <<>>, store[sub][k].id)
  /\ UNCHANGED <<frame, userId, sub, listeners, tasks, genVars, crudVars>>

NextOrder ==
  \/ OnSnapshot
  \/ \E k \in 1..Len(store[sub]) : RemoteUpdate(k)
  \/ \E k \in 1..Len(store[sub]) : RemoteDelete(k)
  \/ \E pos \in 1..(Len(store[sub]) + 1), d \in AllDocs : RemoteAdd(pos, d)
  \/ \E k \in 1..Len(store[sub]), t \in Times : TimestampResolves(k, t)

SpecOrder == InitOrder /\ [][NextOrder]_vars

\* The snapshot just handed to the listener (the store is read in the same
\* step that sets tasks).
Delivered == event.op = "onSnapshot"

\* C3: in the held task sequence no completed task precedes an incomplete one.
C3_IncompleteFirst ==
  \A i, j \in 1..Len(tasks) :
    i < j => ~(tasks[i].completed /\ ~tasks[j].completed)

\* A delivery that had to move an incomplete task in front of a completed one.
C3_Witness ==
  /\ Delivered
  /\ Len(tasks) = 3
  /\ store[sub][1].completed /\ ~store[sub][2].completed
  /\ ~tasks[1].completed /\ tasks[3].completed

ExampleSnapshot ==
  << Doc("a", SomeText, FALSE, <<10>>),
     Doc("b", SomeText, TRUE, <<20>>),
     Doc("c", SomeText, FALSE, <<30>>) >>

IdsOf(docs) == [k \in 1..Len(docs) |-> docs[k].id]

\* C4: after a delivery the held sequence is a permutation of the snapshot;
\* within a completion group resolved timestamps never increase from front to
\* back and no record without a timestamp precedes one that has a timestamp;
\* the snapshot [a(incomplete,10), b(completed,20), c(incomplete,30)] yields
\* [c, a, b].
C4_NewestFirstWithinGroup ==
  Delivered =>
    /\ Len(tasks) = Len(store[sub])
    /\ {tasks[k] : k \in 1..Len(tasks)} = {store[sub][k] : k \in 1..Len(store[sub])}
    /\ \A i, j \in 1..Len(tasks) :
         (i < j /\ tasks[i].completed = tasks[j].completed) =>
           /\ (tasks[i].createdAt # <<>> /\ tasks[j].createdAt # <<>>)
                => tasks[i].createdAt[1] >= tasks[j].createdAt[1]
           /\ ~(tasks[i].createdAt = <<>> /\ tasks[j].createdAt # <<>>)
    /\ store[sub] = ExampleSnapshot => IdsOf(tasks) = <<"c", "a", "b">>

\* The example snapshot has been delivered.
C4_Witness ==
  /\ Delivered
  /\ store[sub] = ExampleSnapshot
  /\ IdsOf(tasks) = <<"c", "a", "b">>

\* C5: ordering the held sequence again leaves it as it is.
C5_Idempotent ==
  Delivered => OrderingPolicy(tasks) = tasks

\* A delivered sequence with three records of one group, none with a
\* timestamp, that arrived behind a completed record.
C5_Witness ==
  /\ Delivered
  /\ Len(tasks) = 3
  /\ store[sub][1].completed
  /\ \A k \in 1..2 : ~tasks[k].completed /\ tasks[k].createdAt = <<>>
  /\ tasks[3].completed

----------------------------------------------------------------------------
(* SpecGen: the suggestion workflow; its handlers may be called in any     *)
(* order while requests are pending.                                       *)

InitGenSpec ==
  /\ frame = IdleFrame
  /\ event = Ev("init", <<>>, None)
  /\ InitApp

NextGen ==
  \/ \E p \in Prompts : SetAiPrompt(p)
  \/ GenerateTasksFromPrompt
  \/ \E k \in 1..Len(genCalls), body \in ResponseBodies : GenerationResolves(k, body)
  \/ \E k \in 1..Len(genCalls), e \in GenErrors : GenerationRejects(k, e)
  \/ \E k \in 1..Len(genCalls) : GenerationTimerFires(k)
  \/ DismissAiSuggestions
  \/ ClearAllSuggestions
  \/ OpenAiModal
  \/ \E k \in 1..Len(aiSuggestions) : AddAiSuggestion(aiSuggestions[k])

SpecGen == InitGenSpec /\ [][NextGen]_vars

\* C8: at most one activation of generateTasksFromPrompt is pending at any
\* time, and a call made while one is pending changes nothing: no request,
\* no change of the buffer, the error or the in-flight flag.
C8_SingleGeneration ==
  [][ /\ Len(genCalls') <= 1
      /\ (event'.op = "generate" /\ genCalls # <<>>) =>
            UNCHANGED <<genCalls, aiSuggestions, generationError, isGenerating>>
    ]_vars

\* C10: when a request is answered with a 2xx response, a body with a tasks
\* array leaves the buffer equal to that array and no error set; any other
\* body leaves GenerationFormatError set and the buffer empty; the answered
\* activation ends and posts no further request.
C10_ResponseOutcome ==
  [][ event'.op = "generationResolved" =>
        /\ event'.id = "tasks" =>
             aiSuggestions' = event'.text /\ generationError' = NoError
        /\ event'.id = "noTasks" =>
             generationError' = FormatErrorMsg /\ aiSuggestions' = <<>>
        /\ Len(genCalls') = Len(genCalls) - 1
        /\ PendingPosts(genCalls') = PendingPosts(genCalls) - 1
    ]_vars

----------------------------------------------------------------------------
(* SpecStore: one principal signing in and out (every sign-in returns the  *)
(* same uid, as with a custom token), the task form, the task items, the   *)
(* writes and their retries, the listener.  Toggle and delete are called   *)
(* from the rendered task items, and directly while no principal is bound. *)

InitStore ==
  /\ frame = IdleFrame
  /\ event = Ev("init", <<>>, None)
  /\ InitApp

NextStore ==
  \/ SignInResolves("u1")
  \/ HandleLogout
  \/ HandleLogoutFails
  \/ ListenerEffect
  \/ \E t \in InputTexts : SetNewTaskText(t)
  \/ SubmitNewTask
  \/ \E k \in 1..Len(tasks) : TaskItemToggle(k)
  \/ \E k \in 1..Len(tasks) : TaskItemDelete(k)
  \/ \E id \in StoreIds, c \in BOOLEAN : userId = None /\ ToggleTaskCompletion(id, c)
  \/ \E id \in StoreIds : userId = None /\ DeleteTask(id)
  \/ \E k \in 1..Len(calls) :
       /\ calls[k].kind = "add"
       /\ \E pos \in 1..(Len(store[Target(calls[k])]) + 1), newId \in NewDocIds :
            WriteResolves(k, pos, newId)
  \/ \E k \in 1..Len(calls) :
       /\ calls[k].kind # "add"
       /\ WriteResolves(k, 1, None)
  \/ \E k \in 1..Len(calls) : WriteRejects(k)
  \/ \E k \in 1..Len(calls) : WriteTimerFires(k)
  \/ OnSnapshot

SpecStore == InitStore /\ [][NextStore]_vars

\* C6: addTask with an empty or white-space-only text, or with no principal
\* bound, starts no activation and no write; toggleTaskCompletion and
\* deleteTask with no principal bound start none either.
C6_NoRemoteCall ==
  [][ /\ (event'.op = "addTask" /\ (userId = None \/ Trim(event'.text) = <<>>))
         => UNCHANGED <<calls, store>>
      /\ (event'.op \in {"toggle", "delete"} /\ userId = None)
         => UNCHANGED <<calls, store>>
    ]_vars

\* A white-space-only text was submitted while a principal is bound, and no
\* activation is pending.
C6_Witness ==
  /\ event.op = "addTask"
  /\ event.text = <<" ", "\t">>
  /\ userId = "u1"
  /\ calls = <<>>

\* The completed flag stored for document id, in whichever collection holds it.
StoredCompleted(st, id) ==
  UNION {{st[u][k].completed : k \in PositionsOf(st[u], id)} : u \in Principals}

\* C9: every toggle the server applies leaves the document's stored completed
\* flag the negation of the flag stored just before that write.
C9_ToggleFlips ==
  [][ event'.op = "toggleApplied" =>
        \A before \in StoredCompleted(store, event'.id) :
          StoredCompleted(store', event'.id) = {~before}
    ]_vars

----------------------------------------------------------------------------
(* SpecPromote: the suggestion buttons.  The dialog starts where an        *)
(* answered generation left it, with any tasks array in the buffer         *)
(* (SpecGen reaches each of these states); the user signs in and out and   *)
(* promotes suggestions; the writes resolve, reject and are retried.       *)

InitPromote ==
  /\ frame = IdleFrame
  /\ event = Ev("init", <<>>, None)
  /\ InitFeed
  /\ InitCrud
  /\ aiPrompt = <<"g">>
  /\ isGenerating = FALSE
  /\ generationError = NoError
  /\ aiSuggestions \in ResponseLists
  /\ genCb = [aiPrompt |-> <<"g">>, isGenerating |-> FALSE]
  /\ genCalls = <<>>

NextPromote ==
  \/ \E u \in Principals : SignInResolves(u)
  \/ HandleLogout
  \/ ListenerEffect
  \/ \E k \in 1..Len(aiSuggestions) : AddAiSuggestion(aiSuggestions[k])
  \/ \E k \in 1..Len(calls) :
       \E pos \in 1..(Len(store[Target(calls[k])]) + 1), newId \in NewDocIds :
         WriteResolves(k, pos, newId)
  \/ \E k \in 1..Len(calls) : WriteRejects(k)
  \/ \E k \in 1..Len(calls) : WriteTimerFires(k)
  \/ OnSnapshot

SpecPromote == InitPromote /\ [][NextPromote]_vars

\* The buffer without its first entry equal to text.
RECURSIVE RemoveFirst(_, _)
RemoveFirst(buffer, text) ==
  IF buffer = <<>> THEN <<>>
  ELSE IF Head(buffer) = text THEN Tail(buffer)
  ELSE <<Head(buffer)>> \o RemoveFirst(Tail(buffer), text)

\* C7: promoting a text removes its first occurrence from the buffer and
\* nothing else, and calls create once: one add activation for the trimmed
\* text when a principal is bound and the text is not blank, none otherwise.
C7_PromoteRemovesOne ==
  [][ event'.op = "addAiSuggestion" =>
        /\ aiSuggestions' = RemoveFirst(aiSuggestions, event'.text)
        /\ IF userId # None /\ Trim(event'.text) # <<>>
             THEN /\ Len(calls') = Len(calls) + 1
                  /\ SubSeq(calls', 1, Len(calls)) = calls
                  /\ calls'[Len(calls')].kind = "add"
                  /\ calls'[Len(calls')].text = Trim(event'.text)
             ELSE calls' = calls
    ]_vars

\* C11: dismissAiSuggestions leaves the suggestion buffer empty, the
\* generation error cleared and the prompt text empty, whatever they were.
C11_DismissClearsAll ==
  [][ event'.op = "dismissAiSuggestions" =>
        /\ aiSuggestions' = <<>>
        /\ generationError' = NoError
        /\ aiPrompt' = <<>>
    ]_vars

\* The messages that report a create, toggle or delete that used up its
\* attempts.
MutationFailedMsgs == {AddFailedMsg, ToggleFailedMsg, DeleteFailedMsg}

\* C12: once a create, toggle or delete has succeeded, no message of a
\* failed create, toggle or delete is shown any more.
C12_SuccessClearsError ==
  [][ event'.op \in {"addApplied", "toggleApplied", "deleteApplied"} =>
        errorMessage' \notin MutationFailedMsgs
    ]_vars

----------------------------------------------------------------------------
(* SpecSession: two principals taking turns (anonymous sign-in returns a   *)
(* new uid after each logout), the task form with one text, the toggle     *)
(* buttons, the writes and their retries, the listener effect.             *)

InitSession ==
  /\ frame = IdleFrame
  /\ event = Ev("init", <<>>, None)
  /\ InitApp

NextSession ==
  \/ \E u \in Principals : SignInResolves(u)
  \/ HandleLogout
  \/ ListenerEffect
  \/ SetNewTaskText(<<" ", "x", " ">>)
  \/ SubmitNewTask
  \/ \E k \in 1..Len(tasks) : TaskItemToggle(k)
  \/ \E k \in 1..Len(calls) :
       /\ calls[k].kind = "add"
       /\ \E pos \in 1..(Len(store[Target(calls[k])]) + 1), newId \in NewDocIds :
            WriteResolves(k, pos, newId)
  \/ \E k \in 1..Len(calls) :
       /\ calls[k].kind # "add"
       /\ WriteResolves(k, 1, None)
  \/ \E k \in 1..Len(calls) : WriteRejects(k)
  \/ \E k \in 1..Len(calls) : WriteTimerFires(k)
  \/ OnSnapshot

SpecSession == InitSession /\ [][NextSession]_vars

\* C13: at most one listener is attached at any time; a listener is attached
\* only for the bound principal, never while none is bound, and only once
\* the listener of the previous principal is detached; the task list is only
\* ever set from a snapshot of an attached listener.
C13_SingleSubscription ==
  [][ /\ Cardinality(listeners') <= 1
      /\ (listeners' \ listeners) \subseteq ({userId'} \ {None})
      /\ (listeners' \ listeners # {}) => (listeners' \cap listeners = {})
      /\ event'.op = "onSnapshot" =>
           \E s \in listeners : tasks' = OrderingPolicy(store[s])
    ]_vars

\* The listener has just moved from u1's collection to u2's, while the task
\* list still shows what u1's listener delivered last.
C13_Witness ==
  /\ event.op = "listenerEffect"
  /\ userId = "u2"
  /\ listeners = {"u2"}
  /\ tasks # <<>>
  /\ store["u2"] = <<>>

\* C14: a create clears the text input when its write is applied, after any
\* number of failed attempts, and at no other step; when its last attempt
\* (the third) is rejected the add-failed message is set, the text input is
\* left as it was and the activation ends; an earlier rejection only starts
\* the backoff wait.
C14_CreateOutcome ==
  [][ /\ event'.op = "addApplied" => newTaskText' = <<>>
      /\ event'.op \in {"addTask", "addRejected", "writeTimer"} =>
           newTaskText' = newTaskText
      /\ event'.op = "addRejected" =>
           \E k \in 1..Len(calls) :
             /\ calls[k].kind = "add"
             /\ IF calls[k].frame.attempts = DefaultRetries
                  THEN /\ errorMessage' = AddFailedMsg
                       /\ calls' = RemoveAt(calls, k)
                  ELSE /\ errorMessage' = errorMessage
                       /\ Len(calls') = Len(calls)
                       /\ calls'[k].frame.pc = "sleeping"
                       /\ calls'[k].frame.attempts = calls[k].frame.attempts
    ]_vars

\* A create has just failed for the third time: the message is shown, the
\* typed text is still in the input and nothing is pending.
C14_Witness ==
  /\ event.op = "addRejected"
  /\ errorMessage = AddFailedMsg
  /\ newTaskText = <<" ", "x", " ">>
  /\ calls = <<>>

\* C15: the task list changes only when the listener delivers a snapshot (or
\* logout empties it): no call of addTask, toggleTaskCompletion or
\* deleteTask changes it, and neither does any attempt, wait, success or
\* final failure of their writes; a snapshot delivered to the bound
\* principal's listener sets it to that snapshot in the order of
\* OrderingPolicy.
C15_FeedDriven ==
  [][ /\ tasks' # tasks => event'.op \in {"onSnapshot", "logout"}
      /\ event'.op \in {"addTask", "toggle", "delete", "writeTimer",
                        "addApplied", "toggleApplied", "deleteApplied",
                        "addRejected", "toggleRejected", "deleteRejected"}
           => tasks' = tasks
      /\ (event'.op = "onSnapshot" /\ userId # None /\ listeners = {userId})
           => tasks' = OrderingPolicy(store[userId])
    ]_vars

\* A delete has been applied to the store while the task list still shows
\* the deleted document.
C15_Witness ==
  /\ event.op = "deleteApplied"
  /\ userId = "u1"
  /\ store["u1"] = <<>>
  /\ tasks # <<>>

\* C16: an activation of addTask, toggleTaskCompletion or deleteTask is
\* addressed to the principal bound when it was called, keeps that address
\* through every rejection and backoff wait, and when its write is applied
\* only that principal's collection can change, whoever is bound by then.
C16_WritesToIssuingPrincipal ==
  [][ /\ (event'.op \in {"addTask", "toggle", "delete"} /\ Len(calls') = Len(calls) + 1)
           => calls'[Len(calls')].uid = userId
      /\ (event'.op \in {"addRejected", "toggleRejected", "deleteRejected", "writeTimer"}
            /\ Len(calls') = Len(calls))
           => \A k \in 1..Len(calls) : calls'[k].uid = calls[k].uid
      /\ event'.op \in {"addApplied", "toggleApplied", "deleteApplied"} =>
           \E k \in 1..Len(calls) :
             /\ calls' = RemoveAt(calls, k)
             /\ \A u \in Principals \ {calls[k].uid} : store'[u] = store[u]
             /\ calls[k].kind = "add" =>
                  Len(store'[calls[k].uid]) = Len(store[calls[k].uid]) + 1
    ]_vars

\* A backoff timer has just fired and started the second attempt of a write
\* that u1 issued, while u2 is the bound principal.
C16_Witness ==
  /\ event.op = "writeTimer"
  /\ userId = "u2"
  /\ \E k \in 1..Len(calls) :
       /\ calls[k].uid = "u1"
       /\ calls[k].frame.pc = "awaitFn"
       /\ calls[k].frame.attempts = 2

\* C17: addAiSuggestion takes the text out of the buffer in the same step,
\* leaving the other entries as they were, also when no principal is bound
\* and addTask therefore does nothing; no later step of the create (a
\* rejection, a backoff wait, the final failure, the applied write) changes
\* the buffer, and a rejection leaves the collections unchanged: after the
\* final failure the text is in neither.
C17_PromoteNotRestored ==
  [][ /\ event'.op = "addAiSuggestion" =>
           /\ Len(aiSuggestions') < Len(aiSuggestions)
           /\ SelectSeq(aiSuggestions', LAMBDA t : t # event'.text)
                = SelectSeq(aiSuggestions, LAMBDA t : t # event'.text)
           /\ userId = None => UNCHANGED <<calls, store>>
      /\ event'.op \in {"addRejected", "writeTimer", "addApplied"} =>
           aiSuggestions' = aiSuggestions
      /\ event'.op = "addRejected" => store' = store
    ]_vars

\* The create of a promoted "Buy milk" has just failed for the last time:
\* the text is neither in the buffer nor in any collection.
C17_Witness ==
  /\ event.op = "addRejected"
  /\ event.text = BuyMilk
  /\ errorMessage = AddFailedMsg
  /\ calls = <<>>
  /\ \A k \in 1..Len(aiSuggestions) : aiSuggestions[k] # BuyMilk
  /\ \A u \in Principals : store[u] = <<>>

====
